---- MODULE Spec2Model ----
(***************************************************************************)
(* Model of pyresample/utils.py: parse_area_file with _create_area, and    *)
(* generate_nearest_neighbour_linesample_arrays.                           *)
(*                                                                         *)
(* Text is modelled as sequences of tokens: a line is the sequence of its  *)
(* whitespace separated tokens, a multi-line string is the sequence of its *)
(* lines.  Arrays are functions over 0..n-1, as numpy indexes them.        *)
(***************************************************************************)
EXTENDS Integers, Sequences, FiniteSets, TLC

\* ---------------------------------------------------------------- bounds
MaxLines == 6      \* longest area file, in lines
MaxNames == 2      \* longest list of requested regions
MaxSrcCells == 4   \* largest source area, in pixels
MaxTgtCells == 3   \* largest target area, in pixels

\* ------------------------------------------------------------ input sets
RegionIds == {<<"A">>, <<"B">>}

RegionLine(id) == <<"REGION:">> \o id \o <<"{">>

EndLine == <<"};">>

SizeLine(v) == <<"XSIZE:", v>>

\* The lines an area file is made of: a block opener per region id, the
\* block terminator, and two different well-formed body lines.
FileLines ==
  {RegionLine(id) : id \in RegionIds} \cup {EndLine, SizeLine("1"), SizeLine("2")}

RequestLists == UNION {[1..n -> RegionIds] : n \in 0..MaxNames}

area_file_name == "areas.cfg"

None == [none |-> TRUE]

Unset == [unset |-> TRUE]

VARIABLES
  pc,               \* position in the running call
  area_list,        \* parse_area_file: list(regions)
  area_file,        \* the file handle: "unopened", "open" or "closed"
  lines,            \* the file's lines, as far as the loop has consumed them
  select_all_areas,
  area_defs,
  in_area,
  area_id,
  area_content,
  calls,            \* the calls of _create_area made so far, in order
  raised,           \* the exception that left the call, or None
  returned,         \* [value |-> the value the call returned], or None
  source_shape,     \* source_area_def.shape
  target_shape,     \* target_area_def.shape
  valid_index,      \* as returned by swath.get_neighbour_info
  index_array,      \* as returned by swath.get_neighbour_info, then masked
  queried,          \* index_array as get_neighbour_info returned it
  rows, cols,
  rows_valid, cols_valid,
  number_of_valid_points,
  index_mask,
  row_sample, col_sample

parserVars ==
  <<area_list, area_file, lines, select_all_areas, area_defs, in_area,
    area_id, area_content, calls>>

mapperVars ==
  <<source_shape, target_shape, valid_index, index_array, queried, rows, cols,
    rows_valid, cols_valid, number_of_valid_points, index_mask, row_sample,
    col_sample>>

vars == <<pc, raised, returned, parserVars, mapperVars>>

\* ------------------------------------------------------- string helpers
\* 'REGION' in line
HasRegion(line) == \E i \in 1..Len(line) : line[i] \in {"REGION", "REGION:"}

\* '};' in line
HasTerminator(line) == \E i \in 1..Len(line) : line[i] = "};"

\* line.replace('REGION:', '').replace('{', '').strip()
ExtractId(line) == SelectSeq(line, LAMBDA tok : tok \notin {"REGION:", "{"})

\* list.index(x): position of the first occurrence, 0-based
ListIndex(list, x) ==
  CHOOSE i \in 0..Len(list) - 1 :
    /\ list[i + 1] = x
    /\ \A j \in 0..i - 1 : list[j + 1] # x

InList(list, x) == \E i \in 1..Len(list) : list[i] = x

\* ---------------------------------------------------------- _create_area
\* ConfigObj reads "KEY= value" lines; the keys of the area format are the
\* tokens that end in ':' before the replace(':', '=').
ConfigKeys == {"REGION:", "XSIZE:"}

\* area_content.replace(':', '=').replace('{', '').replace('};', '').splitlines()
ConfigLines(content) ==
  [i \in 1..Len(content) |->
     SelectSeq(content[i], LAMBDA tok : tok \notin {"{", "};"})]

Digits == {"1", "2"}

IntOf(tok) == IF tok = "1" THEN 1 ELSE 2

Failure(exc) == [ok |-> FALSE, exc |-> exc]

\* _create_area(area_id, area_content): the AreaDefinition built, or the
\* exception raised.  XSIZE stands for the six required keys, which are all
\* read with config[KEY] and converted the same way.
_create_area(id, content) ==
  LET cfg == ConfigLines(content)
      body == SelectSeq(cfg, LAMBDA l : l # <<>>)
      keyed(k) == {i \in 1..Len(body) : body[i][1] = k}
  IN  IF \E i \in 1..Len(body) : body[i][1] \notin ConfigKeys
        THEN Failure("ParseError")
      ELSE IF \E k \in ConfigKeys : Cardinality(keyed(k)) > 1
        THEN Failure("DuplicateError")
      ELSE IF keyed("XSIZE:") = {}
        THEN Failure("KeyError")
      ELSE LET value == Tail(body[CHOOSE i \in keyed("XSIZE:") : TRUE])
           IN  IF Len(value) # 1 \/ value[1] \notin Digits
                 THEN Failure("ValueError")
               ELSE [ok |-> TRUE,
                     area |-> [area_id |-> id, x_size |-> IntOf(value[1])]]

\* ------------------------------------------------------- parse_area_file
\* lines 50-59: the loop's local state before the first line
InitialLocals(names) ==
  [area_list |-> names,
   select_all_areas |-> (Len(names) = 0),
   area_defs |-> IF Len(names) = 0 THEN <<>> ELSE [i \in 1..Len(names) |-> None],
   in_area |-> FALSE,
   area_id |-> Unset,
   area_content |-> Unset,
   calls |-> <<>>,
   raised |-> None]

\* a faulty PlaceArea: the area is put in front of the result
PlaceArea_prepend(st, area) ==
  IF st.select_all_areas
    THEN [st EXCEPT !.area_defs = <<area>> \o @]
    ELSE [st EXCEPT !.area_defs[ListIndex(st.area_list, st.area_id) + 1] = area]

\* a faulty PlaceArea: a slot that is filled is left alone
PlaceArea_keepFirst(st, area) ==
  IF st.select_all_areas
    THEN [st EXCEPT !.area_defs = Append(@, area)]
    ELSE IF st.area_defs[ListIndex(st.area_list, st.area_id) + 1] = None
      THEN [st EXCEPT !.area_defs[ListIndex(st.area_list, st.area_id) + 1] = area]
      ELSE st

\* lines 70-74: the built area is appended, or stored in its name's slot
PlaceArea(st, area) ==
  IF st.select_all_areas
    THEN [st EXCEPT !.area_defs = Append(@, area)]
    ELSE [st EXCEPT !.area_defs[ListIndex(st.area_list, st.area_id) + 1] = area]

\* a faulty Propagate: the exception is caught and the scan goes on
Propagate_swallowed(st, exc) == st

\* lines 71-74: nothing catches an exception of _create_area: it leaves the
\* loop and the call
Propagate(st, exc) == [st EXCEPT !.raised = [type |-> exc]]

\* One iteration of the loop over the file's lines (lines 61-76), on the
\* loop's local state st, with `at` the line's number in the file.
LoopBody(st, line, at) ==
  IF ~st.in_area
    THEN IF HasRegion(line)
           THEN LET id == ExtractId(line)
                IN  IF InList(st.area_list, id) \/ st.select_all_areas
                      THEN [st EXCEPT !.area_id = id, !.in_area = TRUE,
                                      !.area_content = <<>>]
                      ELSE [st EXCEPT !.area_id = id]
           ELSE st
  ELSE IF HasTerminator(line)
    THEN LET built == _create_area(st.area_id, st.area_content)
             call == [area_id |-> st.area_id, area_content |-> st.area_content,
                      at |-> at, result |-> built]
             left == [st EXCEPT !.in_area = FALSE, !.calls = Append(@, call)]
         IN  IF built.ok THEN PlaceArea(left, built.area)
             ELSE Propagate(left, built.exc)
  ELSE [st EXCEPT !.area_content = Append(@, line)]

Locals ==
  [area_list |-> area_list, select_all_areas |-> select_all_areas,
   area_defs |-> area_defs, in_area |-> in_area, area_id |-> area_id,
   area_content |-> area_content, calls |-> calls, raised |-> None]

\* lines 49-59: open the file and set up the result
Open ==
  /\ pc = "parse"
  /\ area_file' = "open"
  /\ LET st == InitialLocals(area_list)
     IN  /\ select_all_areas' = st.select_all_areas
         /\ area_defs' = st.area_defs
         /\ in_area' = st.in_area
  /\ pc' = "read"
  /\ UNCHANGED <<area_list, lines, area_id, area_content, calls, raised,
                 returned, mapperVars>>

\* line 49: open() fails, no handle exists
OpenFails ==
  /\ pc = "parse"
  /\ raised' = [type |-> "IOError"]
  /\ pc' = "done"
  /\ UNCHANGED <<returned, parserVars, mapperVars>>

\* line 60: readlines() reads the whole file.  The file's content is any
\* sequence of FileLines of at most MaxLines lines; the model fixes each
\* line when the loop reaches it (ScanLine), and the file's end at Close.
ReadLines ==
  /\ pc = "read"
  /\ pc' = "loop"
  /\ UNCHANGED <<raised, returned, parserVars, mapperVars>>

\* line 60: readlines() fails and the exception leaves the call
ReadFails ==
  /\ pc = "read"
  /\ raised' = [type |-> "IOError"]
  /\ pc' = "done"
  /\ UNCHANGED <<returned, parserVars, mapperVars>>

\* lines 60-76: one iteration of the loop, on the next line of the file
ScanLine ==
  /\ pc = "loop"
  /\ Len(lines) < MaxLines
  /\ \E line \in FileLines :
       LET st == LoopBody(Locals, line, Len(lines) + 1)
       IN  /\ lines' = Append(lines, line)
           /\ in_area' = st.in_area
           /\ area_id' = st.area_id
           /\ area_content' = st.area_content
           /\ area_defs' = st.area_defs
           /\ calls' = st.calls
           /\ raised' = st.raised
           /\ pc' = IF st.raised = None THEN "loop" ELSE "done"
  /\ UNCHANGED <<area_list, area_file, select_all_areas, returned, mapperVars>>

\* a faulty Close: a block still open at the end of the file is built
Close_flush ==
  /\ pc = "loop"
  /\ area_file' = "closed"
  /\ IF in_area = TRUE
       THEN LET st == LoopBody(Locals, EndLine, Len(lines) + 1)
            IN  /\ area_defs' = st.area_defs
                /\ calls' = st.calls
       ELSE UNCHANGED <<area_defs, calls>>
  /\ pc' = "check"
  /\ UNCHANGED <<area_list, lines, select_all_areas, in_area,
                 area_id, area_content, raised, returned, mapperVars>>

\* line 78: the loop has run out of lines; area_file.close()
Close ==
  /\ pc = "loop"
  /\ area_file' = "closed"
  /\ pc' = "check"
  /\ UNCHANGED <<area_list, lines, select_all_areas, area_defs, in_area,
                 area_id, area_content, calls, raised, returned, mapperVars>>

\* a faulty FirstNone: the last empty slot
LastNone(defs) ==
  CHOOSE i \in 0..Len(defs) - 1 :
    /\ defs[i + 1] = None
    /\ \A j \in i + 1..Len(defs) - 1 : defs[j + 1] # None

\* lines 82-85: the first slot that is still None, as enumerate meets it
FirstNone(defs) ==
  CHOOSE i \in 0..Len(defs) - 1 :
    /\ defs[i + 1] = None
    /\ \A j \in 0..i - 1 : defs[j + 1] # None

\* lines 80-86: check that all specified areas were found, and return
CheckAreas ==
  /\ pc = "check"
  /\ IF ~select_all_areas /\ \E i \in 1..Len(area_defs) : area_defs[i] = None
       THEN /\ raised' = [type |-> "AreaNotFound",
                          area |-> area_list[FirstNone(area_defs) + 1],
                          file |-> area_file_name]
            /\ UNCHANGED returned
       ELSE /\ returned' = [value |-> area_defs]
            /\ UNCHANGED raised
  /\ pc' = "done"
  /\ UNCHANGED <<parserVars, mapperVars>>

InitMapper ==
  /\ source_shape = Unset /\ target_shape = Unset
  /\ valid_index = Unset /\ index_array = Unset /\ queried = Unset
  /\ rows = Unset /\ cols = Unset
  /\ rows_valid = Unset /\ cols_valid = Unset
  /\ number_of_valid_points = Unset
  /\ index_mask = Unset
  /\ row_sample = Unset /\ col_sample = Unset

Init ==
  /\ pc = "parse"
  /\ area_list \in RequestLists
  /\ area_file = "unopened"
  /\ lines = <<>>
  /\ select_all_areas = Unset
  /\ area_defs = Unset
  /\ in_area = Unset
  /\ area_id = Unset
  /\ area_content = Unset
  /\ calls = <<>>
  /\ raised = None
  /\ returned = None
  /\ InitMapper

Next ==
  \/ Open
  \/ OpenFails
  \/ ReadLines
  \/ ReadFails
  \/ ScanLine
  \/ Close
  \/ CheckAreas

Spec == Init /\ [][Next]_vars

\* ------------------------- generate_nearest_neighbour_linesample_arrays
Shapes(maxCells) ==
  {sh \in (1..maxCells) \X (1..maxCells) : sh[1] * sh[2] <= maxCells}

Size(shape) == shape[1] * shape[2]

\* a sequence as an array indexed from 0
ZeroBased(seq) == [p \in 0..Len(seq) - 1 |-> seq[p + 1]]

ArrayLen(arr) == Cardinality(DOMAIN arr)

\* np.fromfunction(lambda i, j: i, shape)
RowGrid(shape) == [i \in 0..shape[1] - 1 |-> [j \in 0..shape[2] - 1 |-> i]]

\* np.fromfunction(lambda i, j: j, shape)
ColGrid(shape) == [i \in 0..shape[1] - 1 |-> [j \in 0..shape[2] - 1 |-> j]]

\* a faulty Ravel: the columns of the grid one after the other
Ravel_columnMajor(grid, shape) ==
  LET upto[j \in 0..shape[2]] ==
        IF j = 0 THEN <<>>
        ELSE upto[j - 1] \o [i \in 1..shape[1] |-> grid[i - 1][j - 1]]
  IN  ZeroBased(upto[shape[2]])

\* grid.ravel(): the rows of the grid one after the other
Ravel(grid, shape) ==
  LET upto[i \in 0..shape[1]] ==
        IF i = 0 THEN <<>>
        ELSE upto[i - 1] \o [j \in 1..shape[2] |-> grid[i - 1][j - 1]]
  IN  ZeroBased(upto[shape[1]])

\* arr[mask] for a boolean mask: the entries at the true positions, in order
BoolIndex(arr, mask) ==
  LET upto[p \in 0..ArrayLen(arr)] ==
        IF p = 0 THEN <<>>
        ELSE IF mask[p - 1] THEN Append(upto[p - 1], arr[p - 1])
        ELSE upto[p - 1]
  IN  ZeroBased(upto[ArrayLen(arr)])

\* mask.sum()
BoolSum(mask) ==
  LET upto[p \in 0..ArrayLen(mask)] ==
        IF p = 0 THEN 0
        ELSE upto[p - 1] + (IF mask[p - 1] THEN 1 ELSE 0)
  IN  upto[ArrayLen(mask)]

\* arr[idx] for an integer index array is defined when every index is in range
IndexInRange(arr, idx) ==
  \A t \in DOMAIN idx : idx[t] \in DOMAIN arr

\* arr[idx] for an integer index array
TakeIndex(arr, idx) == [t \in DOMAIN idx |-> arr[idx[t]]]

\* arr[mask] = value
MaskAssign(arr, mask, value) ==
  [t \in DOMAIN arr |-> IF mask[t] THEN value ELSE arr[t]]

\* flat.reshape(shape)
Reshape(flat, shape) ==
  [i \in 0..shape[1] - 1 |-> [j \in 0..shape[2] - 1 |-> flat[i * shape[2] + j]]]

\* lines 251-259: the neighbour query returns the mask of the valid source
\* pixels and, per target pixel, an index into the valid pixels or their count
Query ==
  /\ pc = "nn"
  /\ \E mask \in [0..Size(source_shape) - 1 -> BOOLEAN] :
       /\ valid_index' = mask
       /\ \E idx \in [0..Size(target_shape) - 1 ->
                        0..Cardinality({p \in DOMAIN mask : mask[p]})] :
            /\ index_array' = idx
            /\ queried' = idx
  /\ pc' = "enumerate"
  /\ UNCHANGED <<raised, returned, parserVars, source_shape, target_shape,
                 rows, cols, rows_valid, cols_valid, number_of_valid_points,
                 index_mask, row_sample, col_sample>>

\* lines 260-268: enumerate rows and cols, reduce to the valid pixels
Enumerate ==
  /\ pc = "enumerate"
  /\ LET r == Ravel(RowGrid(source_shape), source_shape)
         c == Ravel(ColGrid(source_shape), source_shape)
     IN  /\ rows' = r
         /\ cols' = c
         /\ rows_valid' = BoolIndex(r, valid_index)
         /\ cols_valid' = BoolIndex(c, valid_index)
  /\ pc' = "mask"
  /\ UNCHANGED <<raised, returned, parserVars, source_shape, target_shape,
                 valid_index, index_array, queried, number_of_valid_points,
                 index_mask, row_sample, col_sample>>

\* lines 271-273: mask the no-match entries and point them at index 0
Mask ==
  /\ pc = "mask"
  /\ LET n == BoolSum(valid_index)
         m == [t \in DOMAIN index_array |-> index_array[t] = n]
     IN  /\ number_of_valid_points' = n
         /\ index_mask' = m
         /\ index_array' = MaskAssign(index_array, m, 0)
  /\ pc' = "sample"
  /\ UNCHANGED <<raised, returned, parserVars, source_shape, target_shape,
                 valid_index, queried, rows, cols, rows_valid, cols_valid,
                 row_sample, col_sample>>

\* lines 274-275: look the rows and cols up by array indexing
Sample ==
  /\ pc = "sample"
  /\ IndexInRange(rows_valid, index_array)
  /\ row_sample' = TakeIndex(rows_valid, index_array)
  /\ col_sample' = TakeIndex(cols_valid, index_array)
  /\ pc' = "overwrite"
  /\ UNCHANGED <<raised, returned, parserVars, source_shape, target_shape,
                 valid_index, index_array, queried, rows, cols, rows_valid,
                 cols_valid, number_of_valid_points, index_mask>>

\* line 274: an index outside rows_valid raises IndexError
SampleFails ==
  /\ pc = "sample"
  /\ ~IndexInRange(rows_valid, index_array)
  /\ raised' = [type |-> "IndexError"]
  /\ pc' = "done"
  /\ UNCHANGED <<returned, parserVars, mapperVars>>

\* lines 276-277: the masked entries become -1
Overwrite ==
  /\ pc = "overwrite"
  /\ row_sample' = MaskAssign(row_sample, index_mask, -1)
  /\ col_sample' = MaskAssign(col_sample, index_mask, -1)
  /\ pc' = "reshape"
  /\ UNCHANGED <<raised, returned, parserVars, source_shape, target_shape,
                 valid_index, index_array, queried, rows, cols, rows_valid,
                 cols_valid, number_of_valid_points, index_mask>>

\* lines 279-283: reshape to the target's shape and return
ReshapeReturn ==
  /\ pc = "reshape"
  /\ returned' = [value |-> <<Reshape(row_sample, target_shape),
                               Reshape(col_sample, target_shape)>>]
  /\ pc' = "done"
  /\ UNCHANGED <<raised, parserVars, mapperVars>>

InitParser ==
  /\ area_list = Unset
  /\ area_file = Unset
  /\ lines = Unset
  /\ select_all_areas = Unset
  /\ area_defs = Unset
  /\ in_area = Unset
  /\ area_id = Unset
  /\ area_content = Unset
  /\ calls = Unset

InitNN ==
  /\ pc = "nn"
  /\ source_shape \in Shapes(MaxSrcCells)
  /\ target_shape \in Shapes(MaxTgtCells)
  /\ valid_index = Unset /\ index_array = Unset /\ queried = Unset
  /\ rows = Unset /\ cols = Unset
  /\ rows_valid = Unset /\ cols_valid = Unset
  /\ number_of_valid_points = Unset
  /\ index_mask = Unset
  /\ row_sample = Unset /\ col_sample = Unset
  /\ raised = None
  /\ returned = None
  /\ InitParser

NextNN ==
  \/ Query
  \/ Enumerate
  \/ Mask
  \/ Sample
  \/ SampleFails
  \/ Overwrite
  \/ ReshapeReturn

SpecNN == InitNN /\ [][NextNN]_vars

\* ==================================================================== claims
\* ----------------------------------------------- the blocks of an area file
Min(S) == CHOOSE x \in S : \A y \in S : x <= y

Max(S) == CHOOSE x \in S : \A y \in S : x >= y

Malformed == [malformed |-> TRUE]

\* The file read as blocks laid end to end, each from a REGION line to the
\* first '};' line after it; Malformed marks a file that is not of that form.
Blocks(f) ==
  LET from[o \in 1..Len(f) + 1] ==
        IF o > Len(f) THEN <<>>
        ELSE LET ends == {c \in o + 1..Len(f) : HasTerminator(f[c])}
             IN  IF ~HasRegion(f[o]) \/ ends = {} THEN <<Malformed>>
                 ELSE <<[id |-> ExtractId(f[o]),
                         content |-> SubSeq(f, o + 1, Min(ends) - 1)]>>
                      \o from[Min(ends) + 1]
  IN  from[1]

MadeOfBlocks(f) == \A i \in 1..Len(Blocks(f)) : Blocks(f)[i] # Malformed

DistinctIds(bs) == \A i, j \in 1..Len(bs) : bs[i].id = bs[j].id => i = j

AllBuild(bs) == \A i \in 1..Len(bs) : _create_area(bs[i].id, bs[i].content).ok

AreaOf(b) == _create_area(b.id, b.content).area

Distinct(list) == \A i, j \in 1..Len(list) : list[i] = list[j] => i = j

IOFailed == raised = [type |-> "IOError"]

\* the call is over and the loop ran to the end of the file
ScannedToEnd == pc = "done" /\ area_file = "closed"

EmptySlots == {i \in 1..Len(area_defs) : area_defs[i] = None}

\* C1: with no requested names, a file made of N blocks with pairwise
\* distinct ids, each of which _create_area builds, yields exactly the N
\* areas of its blocks, in file order, each with its block's id as region.
C1_AllBlocksInFileOrder ==
  (/\ pc = "done"
   /\ ~IOFailed
   /\ area_list = <<>>
   /\ MadeOfBlocks(lines)
   /\ DistinctIds(Blocks(lines))
   /\ AllBuild(Blocks(lines)))
  => /\ raised = None
     /\ returned # None
     /\ Len(returned.value) = Len(Blocks(lines))
     /\ \A i \in 1..Len(returned.value) :
          /\ returned.value[i] = AreaOf(Blocks(lines)[i])
          /\ returned.value[i].area_id = Blocks(lines)[i].id

C1_Witness ==
  /\ pc = "done"
  /\ area_list = <<>>
  /\ MadeOfBlocks(lines)
  /\ Len(Blocks(lines)) = 2
  /\ DistinctIds(Blocks(lines))
  /\ returned # None
  /\ Len(returned.value) = 2
  /\ returned.value[1].x_size # returned.value[2].x_size

\* C2: with requested names that are each the id of a block of the file, the
\* call succeeds and its i-th result is the area of a block whose id is the
\* i-th requested name.
C2_RequestedOrder ==
  (/\ pc = "done"
   /\ ~IOFailed
   /\ area_list # <<>>
   /\ MadeOfBlocks(lines)
   /\ AllBuild(Blocks(lines))
   /\ \A i \in 1..Len(area_list) :
        \E k \in 1..Len(Blocks(lines)) : Blocks(lines)[k].id = area_list[i])
  => /\ raised = None
     /\ returned # None
     /\ Len(returned.value) = Len(area_list)
     /\ \A i \in 1..Len(area_list) :
          \E k \in 1..Len(Blocks(lines)) :
            /\ Blocks(lines)[k].id = area_list[i]
            /\ returned.value[i] = AreaOf(Blocks(lines)[k])

\* C3: with requested names, when a slot is still empty after the whole file
\* was scanned the call raises AreaNotFound for the name at the lowest empty
\* position, with the file's path, and returns nothing; AreaNotFound is
\* raised in no other case.
C3_AreaNotFoundFirstEmptySlot ==
  /\ (ScannedToEnd /\ ~select_all_areas /\ EmptySlots # {})
       => /\ raised = [type |-> "AreaNotFound",
                       area |-> area_list[Min(EmptySlots)],
                       file |-> area_file_name]
          /\ returned = None
  /\ (pc = "done" /\ raised # None /\ raised.type = "AreaNotFound")
       => ScannedToEnd /\ ~select_all_areas /\ EmptySlots # {}

C3_Witness ==
  /\ ScannedToEnd
  /\ Len(area_list) = 2
  /\ area_list[1] # area_list[2]
  /\ EmptySlots = {1, 2}
  /\ raised # None
  /\ raised.type = "AreaNotFound"

\* C4: in no terminal state of the call is the file handle still open.
C4_FileClosedOnEveryExit == pc = "done" => area_file # "open"

\* C5: every call of _create_area is made at the '};' line of the block it
\* is given; every area in the result was built by such a call; and once a
\* call of _create_area has failed the call is over with that exception and
\* no result, whether or not a requested name is missing.
C5_BuilderErrorAbortsParse ==
  /\ \A n \in 1..Len(calls) :
       LET c == calls[n]
           open == c.at - Len(c.area_content) - 1
       IN  /\ HasTerminator(lines[c.at])
           /\ open >= 1
           /\ HasRegion(lines[open])
           /\ ExtractId(lines[open]) = c.area_id
           /\ c.area_content = SubSeq(lines, open + 1, c.at - 1)
           /\ ~c.result.ok =>
                /\ n = Len(calls)
                /\ pc = "done"
                /\ raised = [type |-> c.result.exc]
                /\ returned = None
  /\ area_file # "unopened" =>
       \A i \in 1..Len(area_defs) :
         area_defs[i] # None =>
           \E n \in 1..Len(calls) :
             calls[n].result.ok /\ calls[n].result.area = area_defs[i]

C5_Witness ==
  /\ pc = "done"
  /\ area_file = "open"
  /\ Len(area_list) = 2
  /\ area_defs[1] # None
  /\ area_defs[2] = None
  /\ Len(calls) = 2
  /\ ~calls[2].result.ok
  /\ raised = [type |-> calls[2].result.exc]

OkCalls(id) == {n \in 1..Len(calls) : calls[n].area_id = id /\ calls[n].result.ok}

\* C7 as stated: the slot of a requested name holds the area of the first
\* block of that id in file order.
C7_FirstMatchKept ==
  (pc = "done" /\ returned # None /\ area_list # <<>>)
  => \A i \in 1..Len(area_list) :
       OkCalls(area_list[i]) # {} =>
         returned.value[ListIndex(area_list, area_list[i]) + 1] =
           calls[Min(OkCalls(area_list[i]))].result.area

\* C7 amended: every block of a requested id is built when its '};' line is
\* scanned and overwrites that name's slot, so the slot holds the area of
\* the last such block in file order.
C7_LastMatchKept ==
  (area_file # "unopened" /\ area_list # <<>>)
  => \A i \in 1..Len(area_list) :
       LET slot == ListIndex(area_list, area_list[i]) + 1
       IN  /\ OkCalls(area_list[i]) = {} => area_defs[slot] = None
           /\ OkCalls(area_list[i]) # {} =>
                area_defs[slot] = calls[Max(OkCalls(area_list[i]))].result.area
           /\ (pc = "done" /\ returned # None) => returned.value[slot] = area_defs[slot]

C7_Witness ==
  /\ pc = "done"
  /\ returned # None
  /\ Len(area_list) = 1
  /\ Cardinality(OkCalls(area_list[1])) = 2
  /\ calls[1].result.area # calls[2].result.area
  /\ returned.value[1] = calls[2].result.area

ScanFile(f, names) ==
  LET upto[n \in 0..Len(f)] ==
        IF n = 0 THEN InitialLocals(names)
        ELSE IF upto[n - 1].raised # None THEN upto[n - 1]
        ELSE LoopBody(upto[n - 1], f[n], n)
  IN  upto[Len(f)]

BuiltBlocks(cs, ids) ==
  {[area_id |-> cs[n].area_id, area_content |-> cs[n].area_content, at |-> cs[n].at] :
     n \in {m \in 1..Len(cs) : InList(ids, cs[m].area_id)}}

\* C10: for pairwise distinct requested names, the blocks built for them are
\* exactly the blocks of those ids that the scan of the same file builds when
\* no names are requested.
C10_SkippingIsTransparent ==
  (/\ ScannedToEnd
   /\ area_list # <<>>
   /\ Distinct(area_list)
   /\ ScanFile(lines, <<>>).raised = None)
  => BuiltBlocks(calls, area_list) = BuiltBlocks(ScanFile(lines, <<>>).calls, area_list)

\* ------------------------------------------------- the linesample arrays
ValidPixels == {p \in DOMAIN valid_index : valid_index[p]}

\* the flattened source position of the k-th (from 0) valid source pixel
KthValid(k) ==
  CHOOSE p \in ValidPixels : Cardinality({q \in ValidPixels : q < p}) = k

TargetPositions == (0..target_shape[1] - 1) \X (0..target_shape[2] - 1)

\* the entry the neighbour query gave for a target position, row-major
QueriedAt(pos) == queried[pos[1] * target_shape[2] + pos[2]]

HasShape(grid, shape) ==
  /\ DOMAIN grid = 0..shape[1] - 1
  /\ \A i \in DOMAIN grid : DOMAIN grid[i] = 0..shape[2] - 1

\* C6: for every mask and every index array of the neighbour query, the
\* call returns two grids of the target's shape, with -1 in both at every
\* target position whose entry is the number of valid source pixels.
C6_SentinelGivesMinusOne ==
  pc = "done"
  => /\ raised = None
     /\ returned # None
     /\ HasShape(returned.value[1], target_shape)
     /\ HasShape(returned.value[2], target_shape)
     /\ \A pos \in TargetPositions :
          QueriedAt(pos) = Cardinality(ValidPixels) =>
            /\ returned.value[1][pos[1]][pos[2]] = -1
            /\ returned.value[2][pos[1]][pos[2]] = -1

====
